---- MODULE Spec2Model ----
(***************************************************************************)
(* A model of the transcript pipeline of youtube_summary_to_notion:        *)
(*   - split_text            (summary.py)                                  *)
(*   - summarize_long_caption (summary.py, lambda_package)                 *)
(*   - save_to_notion and the pipeline entry points (all four variants)    *)
(*                                                                         *)
(* Strings are sequences of one-character strings.  Text produced by an    *)
(* f-string is the sequence of its literal pieces and interpolated values. *)
(***************************************************************************)
EXTENDS Naturals, Sequences, FiniteSets, TLC

VARIABLES
    \* ---- split_text (summary.py) ----
    text,          \* argument of split_text
    max_length,    \* argument of split_text
    result,        \* value returned by split_text
    st_pc,         \* "call" before the call, "done" after summary.py's split_text,
                   \* "done_package" after lambda_package's, "off" when unused
    \* ---- summarize_long_caption (summary.py, lambda_package) ----
    variant,       \* "summary" or "lambda_package": whose function runs
    caption_text,  \* argument of summarize_long_caption
    chunks,        \* chunk_text(caption_text)
    i,             \* 1-based index of the chunk the loop is at
    summaries,     \* the per-chunk records collected so far
    trace,         \* generation requests and sleeps, in the order performed
    sl_return,     \* value returned by summarize_long_caption
    sl_pc,         \* "call", "loop", "done", or "off" when unused
    \* ---- save_to_notion and the pipeline entry points ----
    entry,         \* which of the four scripts runs
    store,         \* the documents of the Notion database, in creation order
    call,          \* the latest save_to_notion call: input, store operations, outcome
    history,       \* per video id, the outcomes of the direct caller's calls so far
    ncalls,        \* number of save_to_notion calls made by the direct caller
    run,           \* number of pipeline runs started
    ch,            \* 1-based index of the channel the run is at
    vi,            \* 1-based index of the video inside the channel
    p_pc,          \* "idle", "fetch", "videos", or "off" when unused
    runlog,        \* what the current run did so far: one event per channel fetch
                   \* and per video reached
    \* ---- one description line of save_to_notion (lambda_package) ----
    desc_line,     \* the description line the loop body is given
    line_runs,     \* the text runs built for the line
    ln_pc,         \* "call" before the loop body, "done" after it, "off" when unused
    \* ---- concurrent invocations of save_to_notion ----
    mode,          \* "sequential": one caller; "concurrent": two callers at once
    invocations,   \* per caller, the position and locals of its save_to_notion call
    oplog,         \* the store operations of all callers, in the order performed
    \* ---- get_latest_videos (lambda_package) ----
    playlist_items,  \* the uploads playlist get_latest_videos is given
    latest_videos,   \* the list get_latest_videos returns
    gv_pc          \* "call" before the call, "done" after it, "off" when unused

splitVars == <<text, max_length, result, st_pc>>
summVars == <<variant, caption_text, chunks, i, summaries, trace, sl_return, sl_pc>>
sinkVars == <<entry, store, call, history, ncalls>>
pipeVars == <<run, ch, vi, p_pc, runlog>>
lineVars == <<desc_line, line_runs, ln_pc>>
concVars == <<mode, invocations, oplog>>
fetchVars == <<playlist_items, latest_videos, gv_pc>>

vars == <<splitVars, summVars, sinkVars, pipeVars, lineVars, concVars, fetchVars>>

-----------------------------------------------------------------------------
(* Bounds of the model *)

\* longest text handed to split_text
MaxTextLen == 4
\* largest max_length handed to split_text
MaxMaxLength == 3
\* longest caption text handed to summarize_long_caption
MaxCaptionLen == 5
\* chunk_size of summary.py's chunk_text call (500 in the source), scaled down
SummaryChunkSize == 2
\* chunk_size of lambda_package's chunk_text (3000 in the source), scaled down
PackageChunkSize == 2
\* max_length of split_text(video.description) (2000 in the source), scaled down
DescriptionMaxLength == 3
\* number of save_to_notion calls the direct caller makes
MaxCalls == 3
\* number of sequential pipeline runs
MaxRuns == 2

\* save_to_notion calls per concurrent caller
MaxConcCalls == 1
\* pieces a description line is made of
MaxPieces == 3
\* entries of the uploads playlist
MaxPlaylistItems == 2

-----------------------------------------------------------------------------
(* Characters *)

\* the sentence terminator, U+3002 in the source
Period == "."
\* the line break
NL == "\n"
\* characters str.strip() removes
Whitespace == {" ", NL}
\* characters of the texts the model explores
Alphabet == {"a", "b", " ", Period, NL}

\* all strings over S of length at most n
StringsUpTo(S, n) == UNION {[1..k -> S] : k \in 0..n}

-----------------------------------------------------------------------------
(* Python string helpers *)

\* not s.strip(): s is empty or consists of whitespace only
IsBlank(s) == \A k \in 1..Len(s) : s[k] \in Whitespace

RECURSIVE SplitAcc(_, _, _, _, _)
SplitAcc(s, sep, k, cur, acc) ==
    IF k > Len(s) THEN Append(acc, cur)
    ELSE IF s[k] = sep THEN SplitAcc(s, sep, k + 1, <<>>, Append(acc, cur))
    ELSE SplitAcc(s, sep, k + 1, Append(cur, s[k]), acc)

\* s.split(sep) for a one-character separator: one more piece than separators
Split(s, sep) == SplitAcc(s, sep, 1, <<>>, <<>>)

RECURSIVE Concat(_)
\* "".join(parts)
Concat(parts) ==
    IF parts = <<>> THEN <<>> ELSE Head(parts) \o Concat(Tail(parts))

\* the smaller of two numbers
Min(a, b) == IF a < b THEN a ELSE b

RECURSIVE SlicesFullOnly(_, _, _)
\* a slicing that keeps the full-width slices and drops a shorter remainder
SlicesFullOnly(s, width, from) ==
    IF from + width - 1 > Len(s) THEN <<>>
    ELSE <<SubSeq(s, from, from + width - 1)>>
             \o SlicesFullOnly(s, width, from + width)

RECURSIVE Slices(_, _, _)
\* [s[i:i + width] for i in range(from - 1, len(s), width)]
Slices(s, width, from) ==
    IF from > Len(s) THEN <<>>
    ELSE <<SubSeq(s, from, Min(from + width - 1, Len(s)))>>
             \o Slices(s, width, from + width)

-----------------------------------------------------------------------------
(* split_text, summary.py *)

\* result with current_chunk appended when it is not empty
Flush(st) ==
    IF st.current_chunk # <<>> THEN Append(st.result, st.current_chunk)
    ELSE st.result

\* the suffix a sentence gets: the terminator unless it equals the last piece
SentenceWithPeriod(sentence, sentences) ==
    sentence \o (IF sentence # sentences[Len(sentences)] THEN <<Period>> ELSE <<>>)

\* one iteration of "for sentence in sentences"
SentenceStep(st, sentence, sentences, maxlen) ==
    IF IsBlank(sentence) THEN st
    ELSE IF Len(sentence) > maxlen THEN
        [result |-> Flush(st) \o Slices(sentence, maxlen, 1),
         current_chunk |-> <<>>]
    ELSE
        LET sentence_with_period == SentenceWithPeriod(sentence, sentences) IN
        IF Len(st.current_chunk \o sentence_with_period) <= maxlen
        THEN [st EXCEPT !.current_chunk = @ \o sentence_with_period]
        ELSE [result |-> Flush(st), current_chunk |-> sentence_with_period]

RECURSIVE SentenceLoop(_, _, _, _)
\* "for sentence in sentences", from the k-th sentence on
SentenceLoop(st, sentences, k, maxlen) ==
    IF k > Len(sentences) THEN st
    ELSE SentenceLoop(SentenceStep(st, sentences[k], sentences, maxlen),
                      sentences, k + 1, maxlen)

\* one iteration of "for paragraph in paragraphs"
ParagraphStep(st, paragraph, maxlen) ==
    IF IsBlank(paragraph) THEN st
    ELSE SentenceLoop(st, Split(paragraph, Period), 1, maxlen)

RECURSIVE ParagraphLoop(_, _, _, _)
\* "for paragraph in paragraphs", from the k-th paragraph on
ParagraphLoop(st, paragraphs, k, maxlen) ==
    IF k > Len(paragraphs) THEN st
    ELSE ParagraphLoop(ParagraphStep(st, paragraphs[k], maxlen),
                       paragraphs, k + 1, maxlen)

\* split_text(t, maxlen) of summary.py
split_text(t, maxlen) ==
    IF t = <<>> THEN <<>>
    ELSE Flush(ParagraphLoop([result |-> <<>>, current_chunk |-> <<>>],
                             Split(t, NL), 1, maxlen))

\* one iteration of "for paragraph in paragraphs" of lambda_package's split_text
PackageParagraphStep(st, paragraph, maxlen) ==
    LET flushed == IF Len(st.current_chunk \o paragraph \o <<NL>>) > maxlen
                      /\ st.current_chunk # <<>>
                   THEN [result |-> Append(st.result, st.current_chunk),
                         current_chunk |-> <<>>]
                   ELSE st
    IN  IF IsBlank(paragraph)
        THEN [flushed EXCEPT !.current_chunk = @ \o <<NL>>]
        ELSE [flushed EXCEPT !.current_chunk = @ \o paragraph \o <<NL>>]

RECURSIVE PackageParagraphLoop(_, _, _, _)
\* "for paragraph in paragraphs" of lambda_package, from the k-th paragraph on
PackageParagraphLoop(st, paragraphs, k, maxlen) ==
    IF k > Len(paragraphs) THEN st
    ELSE PackageParagraphLoop(PackageParagraphStep(st, paragraphs[k], maxlen),
                              paragraphs, k + 1, maxlen)

\* split_text(t, maxlen) of lambda_package/lambda_function.py
split_text_package(t, maxlen) ==
    IF t = <<>> THEN <<>>
    ELSE Flush(PackageParagraphLoop([result |-> <<>>, current_chunk |-> <<>>],
                                    Split(t, NL), 1, maxlen))

-----------------------------------------------------------------------------
(* String formatting *)

Digit == <<"0", "1", "2", "3", "4", "5", "6", "7", "8", "9">>

RECURSIVE StrOf(_)
\* str(n), as f"{n}" formats a non-negative integer
StrOf(n) ==
    IF n < 10 THEN <<Digit[n + 1]>>
    ELSE StrOf(n \div 10) \o <<Digit[(n % 10) + 1]>>

RECURSIVE Join(_, _)
\* sep.join(parts)
Join(parts, sep) ==
    IF parts = <<>> THEN <<>>
    ELSE IF Len(parts) = 1 THEN Head(parts)
    ELSE Head(parts) \o sep \o Join(Tail(parts), sep)

-----------------------------------------------------------------------------
(* chunk_text *)

\* one iteration of "for sentence in sentences" of summary.py's chunk_text
ChunkSentenceStep(st, sentence0, chunk_size) ==
    IF IsBlank(sentence0) THEN st
    ELSE
        LET sentence == sentence0 \o <<Period>>
            sentence_length == Len(sentence)
        IN  IF st.current_length + sentence_length > chunk_size
            THEN [chunks |-> IF st.current_chunk # <<>>
                             THEN Append(st.chunks, st.current_chunk)
                             ELSE st.chunks,
                  current_chunk |-> sentence,
                  current_length |-> sentence_length]
            ELSE [chunks |-> st.chunks,
                  current_chunk |-> st.current_chunk \o sentence,
                  current_length |-> st.current_length + sentence_length]

RECURSIVE ChunkSentenceLoop(_, _, _, _)
ChunkSentenceLoop(st, sentences, k, chunk_size) ==
    IF k > Len(sentences) THEN st
    ELSE ChunkSentenceLoop(ChunkSentenceStep(st, sentences[k], chunk_size),
                           sentences, k + 1, chunk_size)

\* chunk_text(t, chunk_size) of summary.py: whole sentences, terminator added
chunk_text_summary(t, chunk_size) ==
    LET st == ChunkSentenceLoop(
                  [chunks |-> <<>>, current_chunk |-> <<>>, current_length |-> 0],
                  Split(t, Period), 1, chunk_size)
    IN  IF st.current_chunk # <<>> THEN Append(st.chunks, st.current_chunk)
        ELSE st.chunks

\* chunk_text(t, chunk_size) of lambda_package: fixed-width slices
chunk_text_package(t, chunk_size) == Slices(t, chunk_size, 1)

\* the chunk_text call summarize_long_caption makes, per variant
chunk_text(v, t) ==
    IF v = "summary" THEN chunk_text_summary(t, SummaryChunkSize)
    ELSE chunk_text_package(t, PackageChunkSize)

-----------------------------------------------------------------------------
(* summarize_long_caption *)

\* seconds of time.sleep after a chunk's summary is recorded
InterCallDelay == 2

\* texts the generation service may return (the empty text included)
GenTexts == {<<>>, <<"s">>}
\* str(e) of the exception a failed generation call raises
GenErrors == {<<"E">>}

\* what one generation call may do: return a text, or raise
GenOutcomes ==
    {[ok |-> TRUE, content |-> c] : c \in GenTexts}
        \cup {[ok |-> FALSE, content |-> e] : e \in GenErrors}

\* chunk_prompt_template.format(chunk=chunk)
ChunkPrompt(v, chunk) == <<"chunk_prompt_template ", v, ": ">> \o chunk

\* final_prompt: the template with "\n\n".join(summaries) embedded
FinalPrompt(entries) == <<"final_prompt: ">> \o Join(entries, <<NL, NL>>)

\* a generation request, with the prompt sent and what came back
GenEvent(kind, index, prompt, outcome) ==
    [op |-> "generate", kind |-> kind, index |-> index, prompt |-> prompt,
     ok |-> outcome.ok, content |-> outcome.content, seconds |-> 0]

\* a time.sleep(seconds)
SleepEvent(seconds) ==
    [op |-> "sleep", kind |-> "sleep", index |-> 0, prompt |-> <<>>,
     ok |-> TRUE, content |-> <<>>, seconds |-> seconds]

\* the entry summary.py appends for chunk k of n
SummaryEntry(k, n, outcome) ==
    IF outcome.ok
    THEN <<"=== chunk ">> \o StrOf(k) \o <<"/">> \o StrOf(n)
             \o <<" summary ===", NL>> \o outcome.content
    ELSE <<"=== chunk ">> \o StrOf(k) \o <<" summary failed ===">>

\* the record lambda_package appends for chunk k of n
PackageRecord(k, n, outcome) ==
    [chunk_number |-> k,
     total_chunks |-> n,
     content |-> IF outcome.ok THEN outcome.content
                 ELSE <<"chunk ">> \o StrOf(k) \o <<" summarize error: ">>
                          \o outcome.content]

\* what the loop body appends to summaries for chunk k of n
ChunkRecord(v, k, n, outcome) ==
    IF v = "summary" THEN SummaryEntry(k, n, outcome)
    ELSE PackageRecord(k, n, outcome)

\* a loop body whose except branch appends nothing
AppendRecordDropFailed(recs, rec, outcome) ==
    IF outcome.ok THEN Append(recs, rec) ELSE recs

\* summaries after the loop body: both the try and the except branch append
AppendRecord(recs, rec, outcome) == Append(recs, rec)

\* a loop that a failed chunk leaves (try around the loop, not inside it)
NextChunkIndexAbort(k, n, outcome) == IF outcome.ok THEN k + 1 ELSE n + 1

\* the loop index after the body: the except branch does not leave the loop
NextChunkIndex(k, n, outcome) == k + 1

\* what follows a chunk's generation request inside the loop body:
\* time.sleep(2) is the last statement of the try block
AfterChunkRequest(outcome) ==
    IF outcome.ok THEN <<SleepEvent(InterCallDelay)>> ELSE <<>>

\* the header of the fallback summary
FallbackHeader == <<"=== chunk summaries ===", NL, NL>>

\* a fallback that forgets the header
FallbackSummaryNoHeader(entries) == Join(entries, <<NL, NL>>)

\* the value returned when the final generation call raises
FallbackSummary(entries) == FallbackHeader \o Join(entries, <<NL, NL>>)

\* chunks = chunk_text(caption_text); summaries = []
SummarizeStart ==
    /\ sl_pc = "call"
    /\ chunks' = chunk_text(variant, caption_text)
    /\ summaries' = <<>>
    /\ i' = 1
    /\ sl_pc' = "loop"
    /\ UNCHANGED <<variant, caption_text, trace, sl_return, splitVars, lineVars, concVars, fetchVars, sinkVars, pipeVars>>

\* one iteration of "for i, chunk in enumerate(chunks, 1)"
ChunkIteration ==
    /\ sl_pc = "loop"
    /\ i <= Len(chunks)
    /\ \E outcome \in GenOutcomes :
        /\ trace' = Append(trace, GenEvent("chunk", i,
                                           ChunkPrompt(variant, chunks[i]), outcome))
                        \o AfterChunkRequest(outcome)
        /\ summaries' = AppendRecord(summaries,
                            ChunkRecord(variant, i, Len(chunks), outcome), outcome)
        /\ i' = NextChunkIndex(i, Len(chunks), outcome)
    /\ UNCHANGED <<variant, caption_text, chunks, sl_return, sl_pc, splitVars, lineVars, concVars, fetchVars, sinkVars,
                   pipeVars>>

\* a final request without its try/except: a failure leaves the function by raising
AggregateUnguarded ==
    /\ sl_pc = "loop"
    /\ i > Len(chunks)
    /\ variant = "summary"
    /\ \E outcome \in GenOutcomes :
        /\ trace' = Append(trace, GenEvent("final", 0, FinalPrompt(summaries), outcome))
        /\ sl_return' = IF outcome.ok THEN outcome.content ELSE <<>>
        /\ sl_pc' = IF outcome.ok THEN "done" ELSE "raised"
    /\ UNCHANGED <<variant, caption_text, chunks, i, summaries, splitVars, lineVars,
                   concVars, fetchVars, sinkVars, pipeVars>>

\* summary.py, after the loop: the final request, its result or the fallback
Aggregate ==
    /\ sl_pc = "loop"
    /\ i > Len(chunks)
    /\ variant = "summary"
    /\ \E outcome \in GenOutcomes :
        /\ trace' = Append(trace, GenEvent("final", 0, FinalPrompt(summaries), outcome))
        /\ sl_return' = IF outcome.ok THEN outcome.content
                        ELSE FallbackSummary(summaries)
    /\ sl_pc' = "done"
    /\ UNCHANGED <<variant, caption_text, chunks, i, summaries, splitVars, lineVars, concVars, fetchVars, sinkVars,
                   pipeVars>>

\* lambda_package, after the loop: return summaries
ReturnSummaries ==
    /\ sl_pc = "loop"
    /\ i > Len(chunks)
    /\ variant = "lambda_package"
    /\ sl_return' = summaries
    /\ sl_pc' = "done"
    /\ UNCHANGED <<variant, caption_text, chunks, i, summaries, trace, splitVars, lineVars, concVars, fetchVars,
                   sinkVars, pipeVars>>

-----------------------------------------------------------------------------
(* Document blocks *)

\* a text run without a link
TextRun(content) == [content |-> content, linked |-> FALSE, url |-> <<>>]
\* a text run whose link target is its own content
LinkRun(u) == [content |-> u, linked |-> TRUE, url |-> u]

Paragraph(rich_text) ==
    [type |-> "paragraph", rich_text |-> rich_text, children |-> <<>>]
Heading(content) ==
    [type |-> "heading_2", rich_text |-> <<TextRun(content)>>, children |-> <<>>]
Toggle(content, children) ==
    [type |-> "toggle", rich_text |-> <<TextRun(content)>>, children |-> children]

\* punctuation of the url_pattern character class present in the model
\* (ASCII "." is left out: in the model "." stands for U+3002, no word character)
UrlPunct == {"/", ":", "%", "#", "$", "&", "?", "(", ")", "~", "=", "+", "-"}
\* \w, as far as the model's texts go
WordChars == {"a", "b", "d", "e", "h", "p", "s", "t", "_"}
         \cup {Digit[k] : k \in 1..10}
IsUrlChar(c) == c \in WordChars \cup UrlPunct

RECURSIVE UrlRun(_, _)
\* how many characters from position q on belong to the character class
UrlRun(line, q) ==
    IF q <= Len(line) /\ IsUrlChar(line[q]) THEN 1 + UrlRun(line, q + 1) ELSE 0

\* the literal lit stands at position q of line
LiteralAt(line, q, lit) ==
    /\ q + Len(lit) - 1 <= Len(line)
    /\ SubSeq(line, q, q + Len(lit) - 1) = lit

\* length of the url_pattern match that starts at position q, 0 when none
MatchLen(line, q) ==
    LET body == IF LiteralAt(line, q, <<"h", "t", "t", "p", "s", ":", "/", "/">>)
                THEN q + 8
                ELSE IF LiteralAt(line, q, <<"h", "t", "t", "p", ":", "/", "/">>)
                THEN q + 7
                ELSE 0
    IN  IF body = 0 \/ UrlRun(line, body) = 0 THEN 0
        ELSE (body - q) + UrlRun(line, body)

RECURSIVE UrlMatches(_, _)
\* the leftmost, non-overlapping matches of url_pattern from position q on
UrlMatches(line, q) ==
    IF q > Len(line) THEN <<>>
    ELSE LET m == MatchLen(line, q) IN
         IF m > 0 THEN <<[start |-> q, len |-> m]>> \o UrlMatches(line, q + m)
         ELSE UrlMatches(line, q + 1)

\* re.findall(url_pattern, line)
FindAllUrls(line) ==
    LET ms == UrlMatches(line, 1) IN
    [k \in 1..Len(ms) |-> SubSeq(line, ms[k].start, ms[k].start + ms[k].len - 1)]

\* re.split(url_pattern, line)
SplitOnUrls(line) ==
    LET ms == UrlMatches(line, 1) IN
    [k \in 1..(Len(ms) + 1) |->
        SubSeq(line,
               IF k = 1 THEN 1 ELSE ms[k - 1].start + ms[k - 1].len,
               IF k > Len(ms) THEN Len(line) ELSE ms[k].start - 1)]

RECURSIVE InterleaveLinkFirst(_, _, _)
\* an interleaving that emits urls[i] before the plain part it follows
InterleaveLinkFirst(parts, urls, k) ==
    IF k > Len(parts) THEN <<>>
    ELSE (IF k <= Len(urls) THEN <<LinkRun(urls[k])>> ELSE <<>>)
         \o (IF parts[k] # <<>> THEN <<TextRun(parts[k])>> ELSE <<>>)
         \o InterleaveLinkFirst(parts, urls, k + 1)

RECURSIVE Interleave(_, _, _)
\* "for i, text_part in enumerate(parts)": plain run if not empty, then urls[i]
Interleave(parts, urls, k) ==
    IF k > Len(parts) THEN <<>>
    ELSE (IF parts[k] # <<>> THEN <<TextRun(parts[k])>> ELSE <<>>)
         \o (IF k <= Len(urls) THEN <<LinkRun(urls[k])>> ELSE <<>>)
         \o Interleave(parts, urls, k + 1)

\* the paragraph lambda_package builds for one line of the description
LineBlock(line) ==
    IF IsBlank(line) THEN Paragraph(<<TextRun(<<>>)>>)
    ELSE Paragraph(Interleave(SplitOnUrls(line), FindAllUrls(line), 1))

\* an optional value: None, or a value
None == [some |-> FALSE, value |-> <<>>]
Some(x) == [some |-> TRUE, value |-> x]
\* a test that takes every optional value, None included, as present
AlwaysTruthy(opt) == TRUE

\* Python truthiness of an optional string or list
Truthy(opt) == opt.some /\ opt.value # <<>>

\* the text of the paragraph lambda_package emits for one summary record
RecordText(rec) ==
    StrOf(rec.chunk_number) \o <<"/">> \o StrOf(rec.total_chunks)
        \o <<" ", NL>> \o rec.content

\* a block list that puts the summary section before the description
BlocksSummaryFirst(video) ==
    LET description_parts == split_text(video.description, DescriptionMaxLength) IN
    (IF Truthy(video.caption_summary)
     THEN <<Heading(<<"caption summary">>),
            Paragraph(<<TextRun(video.caption_summary.value)>>)>>
     ELSE <<>>)
        \o [k \in 1..Len(description_parts) |-> Paragraph(<<TextRun(description_parts[k])>>)]

\* children of summary.py's pages.create
BlocksSummary(video) ==
    LET description_parts == split_text(video.description, DescriptionMaxLength) IN
    [k \in 1..Len(description_parts) |-> Paragraph(<<TextRun(description_parts[k])>>)]
        \o (IF Truthy(video.caption_summary)
            THEN <<Heading(<<"caption summary">>),
                   Paragraph(<<TextRun(video.caption_summary.value)>>)>>
            ELSE <<>>)

\* children of lambda_package's pages.create
BlocksPackage(video) ==
    LET description_lines == Split(video.description, NL)
        description_blocks ==
            [k \in 1..Len(description_lines) |-> LineBlock(description_lines[k])]
    IN  <<Toggle(<<"description">>, description_blocks)>>
        \o (IF Truthy(video.caption_summary)
            THEN <<Heading(<<"caption summary">>)>>
                 \o [k \in 1..Len(video.caption_summary.value) |->
                        Paragraph(<<TextRun(RecordText(video.caption_summary.value[k]))>>)]
            ELSE <<>>)

\* children of pages.create in src/lambda_function.py and src/lambda_function_yt.py
BlocksSrc(video) ==
    <<Heading(<<"summary">>),
      Paragraph(<<TextRun(video.caption_summary.value)>>),
      Heading(<<"caption">>),
      Paragraph(<<TextRun(video.caption)>>)>>

-----------------------------------------------------------------------------
(* The document store and save_to_notion *)

\* the four scripts
Entries == {"summary", "lambda_package", "src_lambda_function", "src_lambda_function_yt"}
\* the scripts whose save_to_notion checks for an existing document
CheckedEntries == {"summary", "lambda_package"}

\* video.url
UrlOf(video_id) == <<"https://www.youtube.com/watch?v=", video_id>>

\* the stored URL contains the key (video ids have one fixed length, so a key
\* is contained only as the id part of a URL)
Contains(url, key) == \E k \in 1..Len(url) : url[k] = key

\* a query whose filter asks for a URL equal to the video id
QueryUrlEquals(st, video_id) == SelectSeq(st, LAMBDA doc : doc.url = <<video_id>>)

\* databases.query with the filter URL contains video_id
Query(st, video_id) == SelectSeq(st, LAMBDA doc : Contains(doc.url, video_id))

\* the page pages.create adds for the video
Document(video) == [url |-> UrlOf(video.video_id)]

\* one operation on the store
StoreOp(op, ok) == [op |-> op, ok |-> ok]

\* save_to_notion of summary.py and lambda_package: query, then create;
\* the except branch logs and re-raises
save_to_notion_checked(e, st, video, q_ok, c_ok) ==
    IF ~q_ok THEN
        [store |-> st, ops |-> <<StoreOp("query", FALSE)>>,
         outcome |-> "raised", children |-> <<>>]
    ELSE IF Query(st, video.video_id) # <<>> THEN
        [store |-> st, ops |-> <<StoreOp("query", TRUE)>>,
         outcome |-> "skipped", children |-> <<>>]
    ELSE
        LET blocks == IF e = "summary" THEN BlocksSummary(video)
                      ELSE BlocksPackage(video)
        IN  IF c_ok
            THEN [store |-> Append(st, Document(video)),
                  ops |-> <<StoreOp("query", TRUE), StoreOp("create", TRUE)>>,
                  outcome |-> "created", children |-> blocks]
            ELSE [store |-> st,
                  ops |-> <<StoreOp("query", TRUE), StoreOp("create", FALSE)>>,
                  outcome |-> "raised", children |-> blocks]

\* save_to_notion of src/lambda_function.py and src/lambda_function_yt.py:
\* create without a query; the except branch prints and returns
save_to_notion_src(e, st, video, q_ok, c_ok) ==
    IF c_ok
    THEN [store |-> Append(st, Document(video)),
          ops |-> <<StoreOp("create", TRUE)>>,
          outcome |-> "created", children |-> BlocksSrc(video)]
    ELSE [store |-> st,
          ops |-> <<StoreOp("create", FALSE)>>,
          outcome |-> "swallowed", children |-> BlocksSrc(video)]

\* save_to_notion of script e; q_ok, c_ok: whether the store's query and
\* create succeed when called
save_to_notion(e, st, video, q_ok, c_ok) ==
    IF e \in CheckedEntries THEN save_to_notion_checked(e, st, video, q_ok, c_ok)
    ELSE save_to_notion_src(e, st, video, q_ok, c_ok)

-----------------------------------------------------------------------------
(* Videos *)

\* the channels of channel_ids with the videos each lists, the same in every run
ChannelVideos == << <<"v1", "v2">>, <<"v3">> >>
VideoIds == {"v1", "v2", "v3"}

\* snippet['description'] of each video
DescriptionOf(video_id) ==
    IF video_id = "v1" THEN <<"a", Period, "b", "b", "b", "b", NL, NL, "e">>
    ELSE IF video_id = "v2"
    THEN <<"s", "e", "e", " ", "h", "t", "t", "p", ":", "/", "/", "a", " ", "b">>
    ELSE <<>>

\* values of video.caption_summary that summarize_long_caption can return, and None
CaptionSummaries(e) ==
    IF e = "summary"
    THEN {None, Some(<<>>), Some(<<"s">>),
          Some(FallbackSummary(<<SummaryEntry(1, 1, [ok |-> FALSE, content |-> <<"E">>])>>))}
    ELSE IF e = "lambda_package"
    THEN {None, Some(<<>>),
          Some(<<PackageRecord(1, 1, [ok |-> TRUE, content |-> <<"s">>])>>),
          Some(<<PackageRecord(1, 2, [ok |-> FALSE, content |-> <<"E">>]),
                 PackageRecord(2, 2, [ok |-> TRUE, content |-> <<>>])>>)}
    ELSE {Some(<<>>), Some(<<"s">>), Some(<<"summary error note">>)}

\* the caption text src/ scripts store: never empty (empty captions are skipped)
SrcCaptions == {<<"c">>}

\* the videos a caller may hand to save_to_notion of script e
VideoInputs(e) ==
    {[video_id |-> v, caption_summary |-> cs, caption |-> c,
      description |-> DescriptionOf(v)] :
        v \in VideoIds, cs \in CaptionSummaries(e), c \in SrcCaptions}

-----------------------------------------------------------------------------
(* Specification SpecSink: a caller invoking save_to_notion repeatedly *)

NoCall ==
    [video |-> [video_id |-> "none", caption_summary |-> None, caption |-> <<>>,
                description |-> <<>>],
     ops |-> <<>>, outcome |-> "none", children |-> <<>>, store_before |-> <<>>]

\* the record of a save_to_notion call on store st that returned r
CallRecord(video, st, r) ==
    [video |-> video, ops |-> r.ops, outcome |-> r.outcome,
     children |-> r.children, store_before |-> st]

\* save_to_notion and the pipeline are not running
SinkOff ==
    /\ entry = "none"
    /\ store = <<>>
    /\ call = NoCall
    /\ history = <<>>
    /\ ncalls = 0

PipeOff ==
    /\ run = 0
    /\ ch = 0
    /\ vi = 0
    /\ p_pc = "off"
    /\ runlog = <<>>

\* no description line is being rendered
LineOff ==
    /\ desc_line = <<>>
    /\ line_runs = <<>>
    /\ ln_pc = "off"

\* get_latest_videos is not running
FetchOff ==
    /\ playlist_items = <<>>
    /\ latest_videos = <<>>
    /\ gv_pc = "off"

\* no concurrent run of save_to_notion
ConcOff ==
    /\ mode = "off"
    /\ invocations = <<>>
    /\ oplog = <<>>

\* split_text is not running
SplitOff ==
    /\ text = <<>>
    /\ max_length = 0
    /\ result = <<>>
    /\ st_pc = "off"

\* summarize_long_caption is not running
SummOff ==
    /\ variant = "none"
    /\ caption_text = <<>>
    /\ chunks = <<>>
    /\ i = 0
    /\ summaries = <<>>
    /\ trace = <<>>
    /\ sl_return = <<>>
    /\ sl_pc = "off"

InitSink ==
    /\ FetchOff
    /\ LineOff
    /\ ConcOff
    /\ SplitOff
    /\ SummOff
    /\ PipeOff
    /\ entry \in Entries
    /\ store = <<>>
    /\ call = NoCall
    /\ history = [v \in VideoIds |-> <<>>]
    /\ ncalls = 0

\* one call save_to_notion(notion_client, database_id, video) by a sequential caller
SaveToNotionCall ==
    /\ p_pc = "off"
    /\ entry \in Entries
    /\ ncalls < MaxCalls
    /\ \E video \in VideoInputs(entry), q_ok \in BOOLEAN, c_ok \in BOOLEAN :
        LET r == save_to_notion(entry, store, video, q_ok, c_ok) IN
            /\ store' = r.store
            /\ call' = CallRecord(video, store, r)
            /\ history' = [history EXCEPT ![video.video_id] =
                              Append(@, [outcome |-> r.outcome, ops |-> r.ops])]
    /\ ncalls' = ncalls + 1
    /\ UNCHANGED <<entry, splitVars, lineVars, concVars, fetchVars, summVars, pipeVars>>

NextSink == SaveToNotionCall

SpecSink == InitSink /\ [][NextSink]_vars

-----------------------------------------------------------------------------
(* Specification SpecLine: the loop body of lambda_package's save_to_notion *)
(* applied to one description line                                         *)

\* the pieces description lines are built from: URLs, a bare scheme, and
\* characters inside and outside the URL character class
LinePieces ==
    {<<"h", "t", "t", "p", ":", "/", "/", "a">>,
     <<"h", "t", "t", "p", "s", ":", "/", "/", "b", "/">>,
     <<"h", "t", "t", "p", ":", "/", "/">>,
     <<"a">>, <<" ">>, <<":">>, <<"!">>}

RECURSIVE LinesOf(_)
\* the lines made of at most n pieces
LinesOf(n) ==
    IF n = 0 THEN {<<>>}
    ELSE LET shorter == LinesOf(n - 1) IN
         shorter \cup {l \o piece : l \in shorter, piece \in LinePieces}

InitLine ==
    /\ FetchOff
    /\ SplitOff
    /\ SummOff
    /\ SinkOff
    /\ PipeOff
    /\ ConcOff
    /\ desc_line \in LinesOf(MaxPieces)
    /\ line_runs = <<>>
    /\ ln_pc = "call"

\* one iteration of "for line in description_lines": rich_text of the line
RenderLine ==
    /\ ln_pc = "call"
    /\ line_runs' = LineBlock(desc_line).rich_text
    /\ ln_pc' = "done"
    /\ UNCHANGED <<desc_line, splitVars, summVars, sinkVars, pipeVars, concVars, fetchVars>>

NextLine == RenderLine

SpecLine == InitLine /\ [][NextLine]_vars

-----------------------------------------------------------------------------
(* Specification SpecFetch: get_latest_videos of lambda_package applied to *)
(* an uploads playlist                                                     *)

\* "duration_seconds <= 60": the short-video threshold in seconds
ShortVideoSeconds == 60
\* "duration_seconds >= 2400": the long-video threshold in seconds
LongVideoSeconds == 2400

\* an ISO 8601 duration PT<minutes>M<seconds>S
IsoDuration(minutes, seconds) == [minutes |-> minutes, seconds |-> seconds]

\* int(isodate.parse_duration(duration).total_seconds())
parse_duration(duration) == duration.minutes * 60 + duration.seconds

\* the durations of the playlist's videos: around both thresholds
IsoDurations ==
    {IsoDuration(0, 59), IsoDuration(1, 0), IsoDuration(1, 1),
     IsoDuration(39, 59), IsoDuration(40, 0)}

\* how many days before today (JST) a video was published
DaysAgo == 0..2

\* one entry of playlist_response['items'], with what videos().list says of it
PlaylistItems ==
    [duration : IsoDurations, days_ago : DaysAgo, has_details : BOOLEAN]

\* the loop body of get_latest_videos appends the item's video: the video has
\* details, passes the duration filter and was published today or yesterday
IsAppended(item) ==
    LET duration_seconds == parse_duration(item.duration) IN
    /\ item.has_details
    /\ ~(duration_seconds <= ShortVideoSeconds \/ duration_seconds >= LongVideoSeconds)
    /\ item.days_ago \in {0, 1}

\* get_latest_videos: the videos appended over playlist_response['items']
get_latest_videos(items) == SelectSeq(items, IsAppended)

InitFetch ==
    /\ SplitOff
    /\ SummOff
    /\ SinkOff
    /\ PipeOff
    /\ LineOff
    /\ ConcOff
    /\ playlist_items \in UNION {[1..n -> PlaylistItems] : n \in 0..MaxPlaylistItems}
    /\ latest_videos = <<>>
    /\ gv_pc = "call"

\* one call of get_latest_videos; a failing API request is logged and re-raised
GetLatestVideosCall ==
    /\ gv_pc = "call"
    /\ \E api_ok \in BOOLEAN :
        IF api_ok
        THEN /\ latest_videos' = get_latest_videos(playlist_items)
             /\ gv_pc' = "done"
        ELSE /\ latest_videos' = <<>>
             /\ gv_pc' = "raised"
    /\ UNCHANGED <<playlist_items, splitVars, summVars, sinkVars, pipeVars, lineVars,
                   concVars>>

NextFetch == GetLatestVideosCall

SpecFetch == InitFetch /\ [][NextFetch]_vars

-----------------------------------------------------------------------------
(* Specification SpecConc: invocations of save_to_notion (summary.py,      *)
(* lambda_package) against one database, step by step                      *)

Callers == {1, 2}

\* one store operation of a caller
CallerOp(c, op, video_id, ok) ==
    [caller |-> c, op |-> op, video_id |-> video_id, ok |-> ok]

\* a caller between two save_to_notion calls, after calls of them
Idle(calls) == [pc |-> "idle", video_id |-> "none", calls |-> calls]

InitConc ==
    /\ FetchOff
    /\ LineOff
    /\ SplitOff
    /\ SummOff
    /\ PipeOff
    /\ entry \in CheckedEntries
    /\ store = <<>>
    /\ call = NoCall
    /\ history = <<>>
    /\ ncalls = 0
    /\ mode \in {"sequential", "concurrent"}
    /\ invocations = [c \in Callers |-> Idle(0)]
    /\ oplog = <<>>

\* caller c enters save_to_notion(video) and performs the existence query:
\* a failed query raises, a non-empty result returns (skip), an empty one
\* goes on to build the page.  A sequential caller starts only when no other
\* call is in progress.
ConcQuery(c) ==
    /\ mode \in {"sequential", "concurrent"}
    /\ invocations[c].pc = "idle"
    /\ invocations[c].calls < MaxConcCalls
    /\ mode = "sequential" => \A o \in Callers : invocations[o].pc = "idle"
    /\ \E video_id \in VideoIds, q_ok \in BOOLEAN :
        /\ oplog' = Append(oplog, CallerOp(c, "query", video_id, q_ok))
        /\ invocations' = [invocations EXCEPT ![c] =
               IF q_ok /\ Query(store, video_id) = <<>>
               THEN [pc |-> "queried", video_id |-> video_id, calls |-> @.calls + 1]
               ELSE Idle(@.calls + 1)]
    /\ UNCHANGED <<mode, sinkVars, splitVars, lineVars, fetchVars, summVars, pipeVars>>

\* caller c, whose query found nothing, performs pages.create and returns
\* (or raises when the create fails)
ConcCreate(c) ==
    /\ invocations[c].pc = "queried"
    /\ \E c_ok \in BOOLEAN :
        /\ oplog' = Append(oplog, CallerOp(c, "create", invocations[c].video_id, c_ok))
        /\ store' = IF c_ok
                    THEN Append(store, Document([video_id |-> invocations[c].video_id]))
                    ELSE store
    /\ invocations' = [invocations EXCEPT ![c] = Idle(@.calls)]
    /\ UNCHANGED <<mode, entry, call, history, ncalls, splitVars, lineVars, fetchVars, summVars,
                   pipeVars>>

NextConc == \E c \in Callers : ConcQuery(c) \/ ConcCreate(c)

SpecConc == InitConc /\ [][NextConc]_vars

-----------------------------------------------------------------------------
(* Specification SpecPipe: sequential runs of a script over the same videos *)

\* summarize_long_caption(caption) as a function of what the generation calls
\* do: outs[k] for chunk k, fin for the final request
summarize_long_caption(v, caption, outs, fin) ==
    LET cs == chunk_text(v, caption)
        recs == [k \in 1..Len(cs) |-> ChunkRecord(v, k, Len(cs), outs[k])]
    IN  IF v = "summary"
        THEN (IF fin.ok THEN fin.content ELSE FallbackSummary(recs))
        ELSE recs

\* first_caption.text of the videos that have a transcript
PipeCaptions == {<<" ">>, <<"a">>, <<"a", Period, "a">>}

\* the values summarize_long_caption(caption) can return, over everything the
\* generation calls may do
SummariesFor(v, caption) ==
    {summarize_long_caption(v, caption, outs, fin) :
        outs \in [1..Len(chunk_text(v, caption)) -> GenOutcomes], fin \in GenOutcomes}

\* the number of generation requests process_channel issues for a video:
\* none without captions, otherwise those of summarize_long_caption
RequestCount(e, captions) ==
    IF captions.some
    THEN Len(chunk_text(e, captions.value)) + (IF e = "summary" THEN 1 ELSE 0)
    ELSE 0

\* a process_channel without a duplicate check of its own
PrecheckSkipsNever(e, st, video_id) == FALSE

\* process_channel of lambda_package found the video in the database: continue
PrecheckSkips(e, st, video_id) ==
    e = "lambda_package" /\ Query(st, video_id) # <<>>

\* an exception that leaves process_channel uncaught: the run stops
AfterExceptionPropagates(c) == [ch |-> c, vi |-> 1, p_pc |-> "aborted"]

\* "except Exception" of process_channel: the error is logged, process_channel
\* returns, and main goes on with the next channel
AfterException(c) == [ch |-> c + 1, vi |-> 1, p_pc |-> "fetch"]

\* the event of one step of a run
RunEvent(kind, c, v, video_id, ok, precheck, transcript, requests, outcome) ==
    [kind |-> kind, ch |-> c, vi |-> v, video_id |-> video_id, ok |-> ok,
     precheck |-> precheck, transcript |-> transcript, requests |-> requests,
     outcome |-> outcome]

\* get_latest_videos was called for channel c and returned (ok) or raised
FetchEvent(c, ok) == RunEvent("fetch", c, 0, "none", ok, "none", FALSE, 0, "none")

\* video v of channel c was reached: what the duplicate check of
\* process_channel gave ("none" where there is none), whether captions were
\* found, how many generation requests were issued, how save_to_notion ended
\* ("none" when it was not called)
VideoEvent(c, v, video_id, precheck, transcript, requests, outcome) ==
    RunEvent("video", c, v, video_id, TRUE, precheck, transcript, requests, outcome)

InitPipe ==
    /\ FetchOff
    /\ LineOff
    /\ ConcOff
    /\ SplitOff
    /\ SummOff
    /\ entry \in Entries
    /\ store = <<>>
    /\ call = NoCall
    /\ history = [v \in VideoIds |-> <<>>]
    /\ ncalls = 0
    /\ run = 0
    /\ ch = 0
    /\ vi = 0
    /\ p_pc = "idle"
    /\ runlog = <<>>

\* main() / lambda_handler is invoked once more
StartRun ==
    /\ p_pc = "idle"
    /\ run < MaxRuns
    /\ run' = run + 1
    /\ ch' = 1
    /\ vi' = 1
    /\ p_pc' = "fetch"
    /\ runlog' = <<>>
    /\ UNCHANGED <<splitVars, lineVars, concVars, fetchVars, summVars, sinkVars>>

\* the channel's video list is fetched; a failure ends the channel
\* (process_channel catches it; get_video_ids_from_channel returns [])
FetchVideos ==
    /\ p_pc = "fetch"
    /\ ch <= Len(ChannelVideos)
    /\ \E ok \in BOOLEAN :
        /\ runlog' = Append(runlog, FetchEvent(ch, ok))
        /\ IF ok THEN /\ p_pc' = "videos"
                      /\ vi' = 1
                      /\ ch' = ch
           ELSE /\ p_pc' = "fetch"
                /\ vi' = 1
                /\ ch' = ch + 1
    /\ UNCHANGED <<run, splitVars, lineVars, concVars, fetchVars, summVars, sinkVars>>

\* the loop body of process_channel (summary.py, lambda_package) for one video
ProcessVideoChecked ==
    /\ p_pc = "videos"
    /\ entry \in CheckedEntries
    /\ vi <= Len(ChannelVideos[ch])
    /\ LET id == ChannelVideos[ch][vi] IN
       \E pq_ok \in BOOLEAN :
        IF entry = "lambda_package" /\ ~pq_ok THEN
            \* the duplicate check of process_channel raises
            /\ ch' = AfterException(ch).ch
            /\ vi' = AfterException(ch).vi
            /\ p_pc' = AfterException(ch).p_pc
            /\ runlog' = Append(runlog,
                    VideoEvent(ch, vi, id, "raised", FALSE, 0, "none"))
            /\ UNCHANGED <<store, call>>
        ELSE IF PrecheckSkips(entry, store, id) THEN
            \* continue
            /\ vi' = vi + 1
            /\ runlog' = Append(runlog,
                    VideoEvent(ch, vi, id, "found", FALSE, 0, "none"))
            /\ UNCHANGED <<ch, p_pc, store, call>>
        ELSE
            \E captions \in {None} \cup {Some(c) : c \in PipeCaptions} :
            \E caption_summary \in
                    IF captions.some
                    THEN {Some(x) : x \in SummariesFor(entry, captions.value)}
                    ELSE {None} :
            \E q_ok \in BOOLEAN, c_ok \in BOOLEAN :
            LET video == [video_id |-> id,
                          caption_summary |-> caption_summary,
                          caption |-> <<>>,
                          description |-> DescriptionOf(id)]
                r == save_to_notion(entry, store, video, q_ok, c_ok)
            IN  /\ store' = r.store
                /\ call' = CallRecord(video, store, r)
                /\ runlog' = Append(runlog,
                        VideoEvent(ch, vi, id,
                                   IF entry = "lambda_package" THEN "empty" ELSE "none",
                                   captions.some, RequestCount(entry, captions),
                                   r.outcome))
                /\ IF r.outcome = "raised"
                   THEN /\ ch' = AfterException(ch).ch
                        /\ vi' = AfterException(ch).vi
                        /\ p_pc' = AfterException(ch).p_pc
                   ELSE /\ vi' = vi + 1
                        /\ UNCHANGED <<ch, p_pc>>
    /\ UNCHANGED <<entry, history, ncalls, run, splitVars, lineVars, concVars, fetchVars,
                   summVars>>

\* the loop body of lambda_handler (src/lambda_function.py, _yt.py) for one video
ProcessVideoSrc ==
    /\ p_pc = "videos"
    /\ entry \notin CheckedEntries
    /\ vi <= Len(ChannelVideos[ch])
    /\ LET id == ChannelVideos[ch][vi] IN
       \E info_ok \in BOOLEAN, c_ok \in BOOLEAN,
          caption \in {None} \cup {Some(c) : c \in SrcCaptions},
          summary \in CaptionSummaries(entry) :
        IF ~info_ok \/ ~Truthy(caption) THEN
            \* continue
            /\ runlog' = Append(runlog,
                    VideoEvent(ch, vi, id, "none", Truthy(caption), 0, "none"))
            /\ UNCHANGED <<store, call>>
        ELSE
            LET video == [video_id |-> id, caption_summary |-> summary,
                          caption |-> caption.value,
                          description |-> DescriptionOf(id)]
                r == save_to_notion(entry, store, video, TRUE, c_ok)
            IN  /\ store' = r.store
                /\ call' = CallRecord(video, store, r)
                /\ runlog' = Append(runlog,
                        VideoEvent(ch, vi, id, "none", TRUE, 1, r.outcome))
    /\ vi' = vi + 1
    /\ UNCHANGED <<entry, history, ncalls, run, ch, p_pc, splitVars, lineVars, concVars,
                   fetchVars, summVars>>

\* the video loop of a channel is exhausted
ChannelDone ==
    /\ p_pc = "videos"
    /\ vi > Len(ChannelVideos[ch])
    /\ ch' = ch + 1
    /\ vi' = 1
    /\ p_pc' = "fetch"
    /\ UNCHANGED <<run, runlog, splitVars, lineVars, concVars, fetchVars, summVars, sinkVars>>

\* the channel loop is exhausted: main() / lambda_handler returns
EndRun ==
    /\ p_pc = "fetch"
    /\ ch > Len(ChannelVideos)
    /\ p_pc' = "idle"
    /\ UNCHANGED <<run, ch, vi, runlog, splitVars, lineVars, concVars, fetchVars, summVars,
                   sinkVars>>

NextPipe ==
    \/ StartRun
    \/ FetchVideos
    \/ ProcessVideoChecked
    \/ ProcessVideoSrc
    \/ ChannelDone
    \/ EndRun

SpecPipe == InitPipe /\ [][NextPipe]_vars

-----------------------------------------------------------------------------
(* Specification SpecSumm: summarize_long_caption on every bounded caption *)

\* characters of the caption texts the model explores
CaptionAlphabet == {"a", " ", Period}

InitSumm ==
    /\ FetchOff
    /\ LineOff
    /\ ConcOff
    /\ SplitOff
    /\ SinkOff
    /\ PipeOff
    /\ variant \in {"summary", "lambda_package"}
    /\ caption_text \in StringsUpTo(CaptionAlphabet, MaxCaptionLen)
    /\ chunks = <<>>
    /\ i = 0
    /\ summaries = <<>>
    /\ trace = <<>>
    /\ sl_return = <<>>
    /\ sl_pc = "call"

NextSumm ==
    \/ SummarizeStart
    \/ ChunkIteration
    \/ Aggregate
    \/ ReturnSummaries

SpecSumm == InitSumm /\ [][NextSumm]_vars

\* summarize_long_caption runs on one thread whose generation calls each
\* return or raise: a step that can be taken is eventually taken
SpecSummFair == InitSumm /\ [][NextSumm]_vars /\ WF_vars(NextSumm)

-----------------------------------------------------------------------------
(* Specification SpecSplit: split_text applied to every bounded input *)

InitSplit ==
    /\ FetchOff
    /\ LineOff
    /\ ConcOff
    /\ SummOff
    /\ SinkOff
    /\ PipeOff
    /\ text \in StringsUpTo(Alphabet, MaxTextLen)
    /\ max_length \in 1..MaxMaxLength
    /\ result = <<>>
    /\ st_pc = "call"

\* the call result = split_text(text, max_length)
SplitTextCall ==
    /\ st_pc = "call"
    /\ result' = split_text(text, max_length)
    /\ st_pc' = "done"
    /\ UNCHANGED <<text, max_length, lineVars, concVars, fetchVars, summVars, sinkVars, pipeVars>>

\* the call result = split_text(text, max_length) of lambda_package
SplitTextPackageCall ==
    /\ st_pc = "call"
    /\ result' = split_text_package(text, max_length)
    /\ st_pc' = "done_package"
    /\ UNCHANGED <<text, max_length, lineVars, concVars, fetchVars, summVars, sinkVars, pipeVars>>

NextSplit == SplitTextCall \/ SplitTextPackageCall

SpecSplit == InitSplit /\ [][NextSplit]_vars

-----------------------------------------------------------------------------
(* Claims about split_text *)

\* C1: every chunk returned by split_text(t, max_length) has length at most
\* max_length, for every input t and every positive max_length.
C1_ChunksBounded ==
    st_pc = "done" => \A k \in 1..Len(result) : Len(result[k]) <= max_length

\* the text with its line breaks and its whitespace-only paragraphs removed
RECURSIVE KeptParagraphs(_, _)
KeptParagraphs(paragraphs, k) ==
    IF k > Len(paragraphs) THEN <<>>
    ELSE (IF IsBlank(paragraphs[k]) THEN <<>> ELSE paragraphs[k])
             \o KeptParagraphs(paragraphs, k + 1)

WithoutLineBreaks(t) == KeptParagraphs(Split(t, NL), 1)

\* C7: the chunks returned by split_text, concatenated in order, equal the
\* input with only its line breaks and whitespace-only paragraphs removed.
C7_RoundTrip ==
    st_pc = "done" => Concat(result) = WithoutLineBreaks(text)

-----------------------------------------------------------------------------
(* Claims about summarize_long_caption *)

\* the generation requests of the trace, in order
GenEvents == SelectSeq(trace, LAMBDA e : e.op = "generate")
\* the per-chunk generation requests of the trace, in order
ChunkEvents == SelectSeq(trace, LAMBDA e : e.op = "generate" /\ e.kind = "chunk")

DigitValue(c) == CHOOSE d \in 0..9 : Digit[d + 1] = c
IsDigit(c) == \E d \in 0..9 : Digit[d + 1] = c

RECURSIVE ParseNat(_, _, _)
\* the number written at s[k..], read up to the first non-digit
ParseNat(s, k, acc) ==
    IF k <= Len(s) /\ IsDigit(s[k]) THEN ParseNat(s, k + 1, acc * 10 + DigitValue(s[k]))
    ELSE acc

\* the chunk index a record carries
RecordIndex(v, rec) == IF v = "summary" THEN ParseNat(rec, 2, 0) ELSE rec.chunk_number

\* the record carries the text the generation call returned
CarriesContent(v, rec, content) ==
    IF v = "summary"
    THEN Len(rec) >= Len(content)
         /\ SubSeq(rec, Len(rec) - Len(content) + 1, Len(rec)) = content
    ELSE rec.content = content

\* C2: summarize_long_caption over n chunks produces exactly n records, in chunk
\* order, whatever calls fail; record k carries index k, and every record of
\* the record-list variant carries total_chunks = n.
C2_OneRecordPerChunk ==
    sl_pc = "done" =>
        LET n == Len(chunk_text(variant, caption_text)) IN
        /\ Len(summaries) = n
        /\ Len(ChunkEvents) = n
        /\ \A k \in 1..n :
            /\ RecordIndex(variant, summaries[k]) = k
            /\ variant = "lambda_package" => summaries[k].total_chunks = n
            /\ ChunkEvents[k].ok =>
                  CarriesContent(variant, summaries[k], ChunkEvents[k].content)

\* a finished run over at least two chunks with a failed and a successful call
C2_Witness ==
    /\ sl_pc = "done"
    /\ Len(chunks) >= 2
    /\ \E k \in 1..Len(ChunkEvents) : ~ChunkEvents[k].ok
    /\ \E k \in 1..Len(ChunkEvents) : ChunkEvents[k].ok

\* C3: in summary.py the generation requests are: one for chunk 1, ..., one
\* for chunk n, in order, each exactly once whatever failed before, then
\* exactly one aggregation request.
C3_RequestSequence ==
    variant = "summary" =>
        LET cs == chunk_text(variant, caption_text)
            n == Len(cs)
            g == GenEvents
        IN  /\ Len(g) <= n + 1
            /\ \A k \in 1..Len(g) :
                IF k <= n
                THEN /\ g[k].kind = "chunk"
                     /\ g[k].index = k
                     /\ g[k].prompt = ChunkPrompt(variant, cs[k])
                ELSE g[k].kind = "final"
            /\ sl_pc = "done" => Len(g) = n + 1

\* summary.py finished over at least two chunks, the first call having failed
C3_Witness ==
    /\ variant = "summary"
    /\ sl_pc = "done"
    /\ Len(chunks) >= 2
    /\ ~GenEvents[1].ok

\* the aggregation request was made and failed
AggregationFailed ==
    /\ trace # <<>>
    /\ trace[Len(trace)].kind = "final"
    /\ ~trace[Len(trace)].ok

\* C4: when the aggregation request fails, summary.py's summarize_long_caption
\* returns normally a non-empty string: the header followed by the per-chunk
\* records joined in index order by blank lines.
C4_FallbackOnAggregationFailure ==
    AggregationFailed =>
        /\ sl_pc = "done"
        /\ sl_return # <<>>
        /\ sl_return = FallbackHeader \o Join(summaries, <<NL, NL>>)
        /\ Len(summaries) = Len(chunk_text(variant, caption_text))

\* every chunk call of at least two failed, and so did the aggregation
C4_Witness ==
    /\ AggregationFailed
    /\ Len(ChunkEvents) >= 2
    /\ \A k \in 1..Len(ChunkEvents) : ~ChunkEvents[k].ok

\* C8: after every per-chunk generation request, failed or not, the delay is
\* waited before the next generation request: no two generation requests
\* follow each other without a sleep between them.
C8_DelayAfterEveryRequest ==
    \A k \in 1..(Len(trace) - 1) :
        (trace[k].op = "generate" /\ trace[k].kind = "chunk")
            => (trace[k + 1].op = "sleep" /\ trace[k + 1].seconds = InterCallDelay)

-----------------------------------------------------------------------------
(* Claims about save_to_notion and the pipeline *)

\* the stored documents of a video
DocsFor(st, video_id) == SelectSeq(st, LAMBDA doc : doc.url = UrlOf(video_id))
\* the pages.create operations among ops
CreateOps(ops) == SelectSeq(ops, LAMBDA o : o.op = "create")

\* C5: save_to_notion of summary.py and lambda_package queries the store
\* first; when the query finds a document it creates nothing and leaves the
\* store unchanged, otherwise it performs exactly one pages.create.  Two
\* successive calls for one video give create then skip, and the store holds
\* exactly one document of that video.
C5_QueryThenCreate ==
    (entry \in CheckedEntries /\ call.outcome # "none") =>
        LET id == call.video.video_id
            before == call.store_before
        IN  /\ call.ops[1].op = "query"
            /\ (call.ops[1].ok /\ DocsFor(before, id) # <<>>) =>
                  /\ CreateOps(call.ops) = <<>>
                  /\ store = before
                  /\ call.outcome = "skipped"
            /\ (call.ops[1].ok /\ DocsFor(before, id) = <<>>) =>
                  /\ Len(CreateOps(call.ops)) = 1
                  /\ call.ops[2].ok =>
                        /\ store = Append(before, [url |-> UrlOf(id)])
                        /\ call.outcome = "created"
            /\ \A v \in VideoIds :
                /\ Len(DocsFor(store, v)) <= 1
                /\ \A k \in 1..Len(history[v]) :
                    history[v][k].outcome = "created" =>
                        /\ Len(DocsFor(store, v)) = 1
                        /\ (k < Len(history[v]) /\ history[v][k + 1].ops[1].ok)
                              => history[v][k + 1].outcome = "skipped"

\* a checked save_to_notion was called twice for one video: created, skipped
C5_Witness ==
    /\ entry \in CheckedEntries
    /\ \E v \in VideoIds :
        /\ Len(history[v]) >= 2
        /\ history[v][1].outcome = "created"
        /\ history[v][2].outcome = "skipped"
        /\ Len(DocsFor(store, v)) = 1

\* C6: for every entry point, any number of sequential runs over the same
\* videos leaves at most one stored document per video id.
C6_AtMostOneDocumentPerVideo ==
    \A v \in VideoIds : Len(DocsFor(store, v)) <= 1

\* C9: in every save_to_notion variant a failure of the store's query or
\* create propagates to the caller, and no second create is attempted.
C9_StoreFailurePropagates ==
    (call.outcome # "none" /\ \E k \in 1..Len(call.ops) : ~call.ops[k].ok) =>
        /\ call.outcome = "raised"
        /\ Len(CreateOps(call.ops)) <= 1

\* C10: in the blocks handed to pages.create by any save_to_notion variant
\* each Heading is directly followed by a Paragraph, and no Heading is
\* emitted when the caption summary is absent, "" or [].
C10_HeadingHasContent ==
    CreateOps(call.ops) # <<>> =>
        /\ \A k \in 1..Len(call.children) :
            call.children[k].type = "heading_2" =>
                /\ k < Len(call.children)
                /\ call.children[k + 1].type = "paragraph"
        /\ ~Truthy(call.video.caption_summary) =>
              \A k \in 1..Len(call.children) : call.children[k].type # "heading_2"

\* C11: for both split_text variants, a text that is empty or holds only
\* whitespace and line breaks yields an empty sequence of chunks.
C11_BlankYieldsNoChunks ==
    (st_pc \in {"done", "done_package"} /\ IsBlank(text)) => result = <<>>

\* ceil(n / w)
CeilDiv(n, w) == (n + w - 1) \div w

\* s holds neither a line break nor a sentence terminator
IsOneSentence(s) == \A k \in 1..Len(s) : s[k] \notin {NL, Period}

\* the last n entries of parts are the fixed-width slices of sentence:
\* together they spell it, and all but the last are maxlen long
EndsWithSlicesOf(parts, sentence, maxlen) ==
    LET n == CeilDiv(Len(sentence), maxlen)
        m == Len(parts) - n
    IN  /\ Len(parts) >= n
        /\ Concat(SubSeq(parts, m + 1, Len(parts))) = sentence
        /\ \A k \in (m + 1)..(Len(parts) - 1) : Len(parts[k]) = maxlen
        /\ Len(parts[Len(parts)]) = Len(sentence) - (n - 1) * maxlen

\* the text of the chunks emitted before the slices of the last sentence,
\* without sentence terminators
TextBeforeSlices(parts, sentence, maxlen) ==
    LET m == Len(parts) - CeilDiv(Len(sentence), maxlen)
    IN  Concat(Split(Concat(SubSeq(parts, 1, m)), Period))

\* C12: split_text of summary.py slices a sentence longer than max_length
\* into ceil(L / max_length) chunks, all of length max_length except possibly
\* the last (so k * max_length characters give exactly k full chunks), and
\* whatever was accumulated from the sentences before it is emitted before
\* the slices.
C12_ForceSplit ==
    (st_pc = "done" /\ NL \notin {text[k] : k \in 1..Len(text)}) =>
        LET sentences == Split(text, Period)
            last == sentences[Len(sentences)]
            earlier == SubSeq(sentences, 1, Len(sentences) - 1)
        IN  (~IsBlank(last) /\ Len(last) > max_length) =>
                /\ EndsWithSlicesOf(result, last, max_length)
                /\ TextBeforeSlices(result, last, max_length)
                       = KeptParagraphs(earlier, 1)
                /\ IsOneSentence(text) =>
                       /\ Len(result) = CeilDiv(Len(text), max_length)
                       /\ Len(text) = Len(result) * max_length =>
                              \A k \in 1..Len(result) : Len(result[k]) = max_length

\* a sentence of 2 * max_length characters was sliced
C12_Witness ==
    /\ st_pc = "done"
    /\ IsOneSentence(text)
    /\ ~IsBlank(text)
    /\ max_length = 2
    /\ Len(text) = 2 * max_length
    /\ Len(result) = 2

\* a chunk accumulated before a long sentence was emitted before its slices
C12_WitnessAccumulated ==
    /\ st_pc = "done"
    /\ text = <<"a", Period, "b", "b">>
    /\ max_length = 1
    /\ result = << <<"a", Period>>, <<"b">>, <<"b">> >>

\* C13: for split_text of summary.py, a text without line break that has a
\* non-whitespace sentence and is at most max_length long comes back as
\* exactly one chunk equal to the text.
C13_ShortTextIsOneChunk ==
    (/\ st_pc = "done"
     /\ NL \notin {text[k] : k \in 1..Len(text)}
     /\ \E k \in 1..Len(Split(text, Period)) : ~IsBlank(Split(text, Period)[k])
     /\ Len(text) <= max_length)
        => result = <<text>>

\* C14: summarize_long_caption (both variants) eventually returns, whatever
\* per-chunk or aggregation calls fail: it never loops forever and never
\* leaves by raising.
C14_EventuallyReturns == <>(sl_pc = "done")

\* the function returned after a failed chunk call followed by further calls
C14_Witness ==
    /\ sl_pc = "done"
    /\ Len(chunks) >= 2
    /\ ~GenEvents[1].ok
    /\ ~GenEvents[Len(GenEvents)].ok

\* C15: every chunk that summary.py's chunk_text hands to the chunk summarizer
\* is at most chunk_size long; a sentence that with its terminator exceeds
\* chunk_size is cut into fixed-width slices, never passed on whole.
C15_CaptionChunksBounded ==
    (variant = "summary" /\ sl_pc \in {"loop", "done"}) =>
        \A k \in 1..Len(chunks) : Len(chunks[k]) <= SummaryChunkSize

\* the entries of the chunks whose generation call succeeded, in index order
NonFailedEntries ==
    LET succeeded == SelectSeq(ChunkEvents, LAMBDA e : e.ok)
    IN  [k \in 1..Len(succeeded) |->
            SummaryEntry(succeeded[k].index, Len(chunks),
                         [ok |-> TRUE, content |-> succeeded[k].content])]

\* C16: the aggregation prompt of summary.py embeds exactly the entries of the
\* chunks whose generation call succeeded, in index order; the entry of a
\* failed chunk is not in the prompt.
C16_PromptEmbedsNonFailedOnly ==
    (variant = "summary" /\ sl_pc = "done") =>
        GenEvents[Len(GenEvents)].prompt = FinalPrompt(NonFailedEntries)

\* the named fields of a per-chunk record: the keys of lambda_package's dict;
\* summary.py's record is a plain string and has none
RecordFields(v, rec) == IF v = "lambda_package" THEN DOMAIN rec ELSE {}

\* C17: every per-chunk record carries an explicit failed marker, true for a
\* chunk whose generation call failed and false for one that succeeded, so
\* that failed records are told apart without reading the content text.
C17_FailedMarker ==
    sl_pc \in {"loop", "done"} =>
        \A k \in 1..Len(summaries) :
            /\ "failed" \in RecordFields(variant, summaries[k])
            /\ summaries[k].failed = ~ChunkEvents[k].ok

-----------------------------------------------------------------------------
(* Claims about concurrent invocations of save_to_notion *)

\* positions in oplog of the successful creates for video_id
CreatesOf(video_id) ==
    {k \in 1..Len(oplog) : /\ oplog[k].op = "create"
                           /\ oplog[k].ok
                           /\ oplog[k].video_id = video_id}

\* position of the query that the caller of the create at position k made
\* in the same save_to_notion call
QueryOfCreate(k) ==
    CHOOSE j \in 1..(k - 1) :
        /\ oplog[j].caller = oplog[k].caller
        /\ oplog[j].op = "query"
        /\ \A m \in (j + 1)..(k - 1) : oplog[m].caller # oplog[k].caller

\* C18: query and create of save_to_notion are separate steps.  A sequential
\* caller never stores two documents for one video id; two documents for one
\* id arise only from an interleaving in which the second creator's query ran
\* before the first creator's create.
C18_DuplicateOnlyByRace ==
    /\ mode = "sequential" => \A v \in VideoIds : Len(DocsFor(store, v)) <= 1
    /\ \A v \in VideoIds :
          /\ Len(DocsFor(store, v)) = Cardinality(CreatesOf(v))
          /\ \A k1, k2 \in CreatesOf(v) : k1 < k2 => QueryOfCreate(k2) < k1

\* both callers queried the same id before either created, and both created
C18_Witness ==
    /\ mode = "concurrent"
    /\ Len(oplog) = 4
    /\ oplog[1].op = "query" /\ oplog[2].op = "query"
    /\ oplog[3].op = "create" /\ oplog[4].op = "create"
    /\ oplog[1].caller # oplog[2].caller
    /\ \E v \in VideoIds : Len(DocsFor(store, v)) = 2

-----------------------------------------------------------------------------
(* Claims about the blocks of a page *)

\* block is a Paragraph holding exactly one text run with this content
IsParagraphOf(block, content) ==
    /\ block.type = "paragraph"
    /\ Len(block.rich_text) = 1
    /\ block.rich_text[1].content = content

\* s starts with prefix
StartsWith(s, prefix) ==
    Len(s) >= Len(prefix) /\ SubSeq(s, 1, Len(prefix)) = prefix

\* positions of the Heading blocks
HeadingsIn(blocks) == {k \in 1..Len(blocks) : blocks[k].type = "heading_2"}

\* C19: the blocks save_to_notion hands to pages.create keep their order.
\* summary.py: one Paragraph per chunk of split_text(description), in chunk
\* order, then, only if there is a summary, one Heading and one Paragraph
\* holding the summary.  lambda_package: the Heading, present only if there
\* are summary records, is followed by one Paragraph per record, in record
\* order, each starting with the record's index/total marker.
C19_BlockOrder ==
    (entry \in CheckedEntries /\ CreateOps(call.ops) # <<>>) =>
        LET video == call.video
            blocks == call.children
            has == Truthy(video.caption_summary)
        IN  IF entry = "summary"
            THEN LET parts == split_text(video.description, DescriptionMaxLength)
                     n == Len(parts)
                 IN  /\ Len(blocks) = n + (IF has THEN 2 ELSE 0)
                     /\ \A k \in 1..n : IsParagraphOf(blocks[k], parts[k])
                     /\ has => /\ blocks[n + 1].type = "heading_2"
                               /\ IsParagraphOf(blocks[n + 2], video.caption_summary.value)
            ELSE /\ ~has => HeadingsIn(blocks) = {}
                 /\ has =>
                      LET recs == video.caption_summary.value IN
                      \E h \in 1..Len(blocks) :
                          /\ HeadingsIn(blocks) = {h}
                          /\ Len(blocks) = h + Len(recs)
                          /\ \A k \in 1..Len(recs) :
                                /\ blocks[h + k].type = "paragraph"
                                /\ Len(blocks[h + k].rich_text) = 1
                                /\ StartsWith(blocks[h + k].rich_text[1].content,
                                              StrOf(recs[k].chunk_number) \o <<"/">>
                                                  \o StrOf(recs[k].total_chunks))
                                /\ blocks[h + k].rich_text[1].content
                                       = RecordText(recs[k])

\* summary.py created a page with several description chunks and a summary
C19_Witness ==
    /\ entry = "summary"
    /\ call.outcome = "created"
    /\ Truthy(call.video.caption_summary)
    /\ Len(call.children) >= 4

\* lambda_package created a page with two summary records
C19_WitnessPackage ==
    /\ entry = "lambda_package"
    /\ call.outcome = "created"
    /\ Truthy(call.video.caption_summary)
    /\ Len(call.video.caption_summary.value) = 2
    /\ Len(call.children) = 4

\* the contents of the runs, in order
RunContents(runs) == [k \in 1..Len(runs) |-> runs[k].content]

\* position in the line of the first character of run k
RunStart(runs, k) == 1 + Len(Concat(SubSeq(RunContents(runs), 1, k - 1)))

\* C20: for a description line with a non-whitespace character, the runs
\* lambda_package emits spell the line exactly, in character order; a run is
\* linked if and only if it is a match of url_pattern in the line (a linked
\* run is a whole match, no match starts inside a plain run), and a linked
\* run's target is its own content.
C20_RunsSpellLine ==
    (ln_pc = "done" /\ ~IsBlank(desc_line)) =>
        /\ Concat(RunContents(line_runs)) = desc_line
        /\ \A k \in 1..Len(line_runs) :
              LET r == line_runs[k]
                  start == RunStart(line_runs, k)
              IN  /\ r.linked => /\ r.url = r.content
                                   /\ MatchLen(desc_line, start) = Len(r.content)
                  /\ ~r.linked =>
                        \A q \in start..(start + Len(r.content) - 1) :
                            MatchLen(desc_line, q) = 0

\* a line rendered as plain text, a link, and plain text again
C20_Witness ==
    /\ ln_pc = "done"
    /\ Len(line_runs) = 3
    /\ ~line_runs[1].linked
    /\ line_runs[2].linked
    /\ ~line_runs[3].linked

\* a line rendered with two links
C20_WitnessTwoLinks ==
    /\ ln_pc = "done"
    /\ Cardinality({k \in 1..Len(line_runs) : line_runs[k].linked}) = 2

-----------------------------------------------------------------------------
(* Claims about get_latest_videos *)

\* the item's video is among the returned videos
IsReturned(item) == \E k \in 1..Len(latest_videos) : latest_videos[k] = item

\* C21: get_latest_videos of lambda_package drops a video for its duration
\* exactly when the duration is under 60 seconds or 2400 seconds or more: a
\* video with details published today or yesterday is returned if and only
\* if its duration is in 60..2399 seconds, so one of exactly 60 seconds is
\* returned.
C21_DurationFilter ==
    gv_pc = "done" =>
        \A k \in 1..Len(playlist_items) :
            LET item == playlist_items[k]
                seconds == parse_duration(item.duration)
            IN  (item.has_details /\ item.days_ago \in {0, 1}) =>
                    (IsReturned(item) <=> (seconds >= 60 /\ seconds < 2400))

-----------------------------------------------------------------------------
(* Claims about process_channel and main *)

\* the event is an exception inside process_channel: get_latest_videos
\* raised, the duplicate check raised, or save_to_notion re-raised
IsException(ev) ==
    \/ ev.kind = "fetch" /\ ~ev.ok
    \/ ev.kind = "video" /\ (ev.precheck = "raised" \/ ev.outcome = "raised")

\* C22: in summary.py and lambda_package an exception while a channel is
\* processed ends that channel for this run: no later video of the channel
\* is reached, the next thing the run does is to enter the next channel, every
\* channel of the list is entered, and main returns normally.
C22_ChannelIsolation ==
    entry \in CheckedEntries =>
        /\ p_pc \in {"idle", "fetch", "videos"}
        /\ \A k \in 1..Len(runlog) :
              IsException(runlog[k]) =>
                  /\ \A m \in (k + 1)..Len(runlog) : runlog[m].ch > runlog[k].ch
                  /\ IF k < Len(runlog)
                     THEN /\ runlog[k + 1].kind = "fetch"
                          /\ runlog[k + 1].ch = runlog[k].ch + 1
                     ELSE /\ ch = runlog[k].ch + 1
                          /\ \/ p_pc = "fetch"
                             \/ p_pc = "idle" /\ runlog[k].ch = Len(ChannelVideos)
        /\ (p_pc = "idle" /\ run > 0) =>
              \A c \in 1..Len(ChannelVideos) :
                  \E k \in 1..Len(runlog) : runlog[k].kind = "fetch" /\ runlog[k].ch = c

\* main returned from a run in which save_to_notion raised on the first video
\* of channel 1, the second video was not reached, and a video of channel 2
\* was stored
C22_Witness ==
    /\ entry \in CheckedEntries
    /\ p_pc = "idle"
    /\ run > 0
    /\ Len(runlog) = 4
    /\ runlog[2].kind = "video" /\ runlog[2].ch = 1 /\ runlog[2].vi = 1
    /\ runlog[2].outcome = "raised"
    /\ runlog[3].kind = "fetch" /\ runlog[3].ch = 2
    /\ runlog[4].kind = "video" /\ runlog[4].outcome = "created"

\* the latest event of the run log after the step
LastEventAfter == runlog'[Len(runlog')]

\* C23: in lambda_package's process_channel the existence query comes before
\* caption retrieval and summarization.  When the video reached is already
\* in the store, the step issues no generation request, calls no
\* save_to_notion and creates nothing; and when the query succeeded the loop
\* continues with the next video of the channel.
C23_PrecheckBeforeSummarization ==
    [][(/\ entry = "lambda_package"
        /\ p_pc = "videos"
        /\ vi <= Len(ChannelVideos[ch])
        /\ Query(store, ChannelVideos[ch][vi]) # <<>>)
       => /\ store' = store
          /\ call' = call
          /\ Len(runlog') = Len(runlog) + 1
          /\ LastEventAfter.video_id = ChannelVideos[ch][vi]
          /\ LastEventAfter.requests = 0
          /\ ~LastEventAfter.transcript
          /\ LastEventAfter.outcome = "none"
          /\ LastEventAfter.precheck \in {"found", "raised"}
          /\ LastEventAfter.precheck = "found" =>
                (vi' = vi + 1 /\ ch' = ch /\ p_pc' = "videos")]_vars

\* a second run skipped a stored video at its duplicate check and went on to
\* the next video of the channel
C23_Witness ==
    /\ entry = "lambda_package"
    /\ \E k \in 1..(Len(runlog) - 1) :
          /\ runlog[k].precheck = "found"
          /\ Len(DocsFor(store, runlog[k].video_id)) = 1
          /\ runlog[k + 1].kind = "video"
          /\ runlog[k + 1].ch = runlog[k].ch
          /\ runlog[k + 1].vi = runlog[k].vi + 1

\* the event is a video for which get_captions returned an empty list
IsWithoutTranscript(ev) ==
    /\ ev.kind = "video"
    /\ ev.precheck \in {"none", "empty"}
    /\ ~ev.transcript

\* C24: in summary.py and lambda_package a video without transcript is not an
\* error: no generation request is issued for it and save_to_notion is still
\* called, with no summary; the page it creates (unless the existence query
\* finds the video or the store fails) holds the description blocks and no
\* summary Heading.
C24_NoTranscriptStillSaved ==
    entry \in CheckedEntries =>
        /\ \A k \in 1..Len(runlog) :
              IsWithoutTranscript(runlog[k]) =>
                  /\ runlog[k].requests = 0
                  /\ runlog[k].outcome \in {"created", "skipped", "raised"}
        /\ (runlog # <<>> /\ IsWithoutTranscript(runlog[Len(runlog)])) =>
              LET ev == runlog[Len(runlog)]
                  id == ev.video_id
              IN  /\ call.video.video_id = id
                  /\ ~call.video.caption_summary.some
                  /\ call.outcome = ev.outcome
                  /\ ev.outcome = "skipped" => DocsFor(call.store_before, id) # <<>>
                  /\ (call.ops[1].ok /\ DocsFor(call.store_before, id) = <<>>) =>
                        /\ Len(CreateOps(call.ops)) = 1
                        /\ HeadingsIn(call.children) = {}
                        /\ IF entry = "summary"
                           THEN LET parts == split_text(DescriptionOf(id),
                                                        DescriptionMaxLength)
                                IN  /\ Len(call.children) = Len(parts)
                                    /\ \A k \in 1..Len(parts) :
                                          IsParagraphOf(call.children[k], parts[k])
                           ELSE /\ Len(call.children) = 1
                                /\ call.children[1].type = "toggle"
                                /\ Len(call.children[1].children)
                                       = Len(Split(DescriptionOf(id), NL))
                  /\ ev.outcome = "created" =>
                        /\ DocsFor(call.store_before, id) = <<>>
                        /\ Len(DocsFor(store, id)) = 1

\* a video without transcript was stored with its description chunks only
C24_Witness ==
    /\ entry = "summary"
    /\ runlog # <<>>
    /\ IsWithoutTranscript(runlog[Len(runlog)])
    /\ runlog[Len(runlog)].outcome = "created"
    /\ Len(call.children) >= 2

\* the same in lambda_package
C24_WitnessPackage ==
    /\ entry = "lambda_package"
    /\ runlog # <<>>
    /\ IsWithoutTranscript(runlog[Len(runlog)])
    /\ runlog[Len(runlog)].outcome = "created"
    /\ Len(call.children[1].children) >= 2

====
